---- MODULE Spec2Model ----
(***************************************************************************)
(* Model of src/main.py: the Freshservice -> Azure Blob extraction script. *)
(*                                                                         *)
(* Text (URLs, column names, error messages, timestamps) is a sequence of  *)
(* chunks: each chunk is a run of characters that no operation of the      *)
(* script splits.  str.replace, the "in" substring test and re.search are  *)
(* modelled on these sequences exactly as Python defines them on           *)
(* characters.                                                             *)
(***************************************************************************)
EXTENDS Integers, Sequences, FiniteSets, TLC

VARIABLES
  pc,               \* position of main (the statement about to run)
  session,          \* the Snowpark session: "none", "open" or "closed"
  TICKETS,          \* rows of the warehouse table TICKETS
  coerced,          \* whether the warehouse types IFNULL's result as a timestamp
  api_key,          \* main's local api_key
  updated_since,    \* main's local updated_since
  fpc,              \* "idle", or "loop" inside fetch_data_from_endpoint
  url,              \* fetcher local
  all_data,         \* fetcher local
  response,         \* fetcher local
  ticket_df,        \* main's local
  ticket_fields_df, \* main's local
  agent_groups_df,  \* main's local
  blobs,            \* the blob container: path -> object
  exc,              \* the exception that reached main's handler, if any
  log,              \* WARNING and ERROR records written through logging
  trace,            \* history: calls made to the outside world, in order
  served,           \* history: per record path, the bodies answered with 200
  ended,            \* history: per record path, how the pagination loop ended
  answers,          \* history: per record path, the status of every answer (0: none)
  sleeps,           \* history: completed time.sleep(60) calls
  uploads,          \* history: path and data of every upload_blob call
  renamed_from      \* history: the ticket columns as the rename found them

vars == <<pc, session, TICKETS, coerced, api_key, updated_since, fpc, url, all_data,
          response, ticket_df, ticket_fields_df, agent_groups_df, blobs, exc, log,
          trace, served, ended, answers, sleeps, uploads, renamed_from>>

-----------------------------------------------------------------------------
(* Bounds of the model *)

MaxPages == 3     \* SpecFetch: pages the API serves for one endpoint
MaxRecs == 2      \* SpecFetch: records on one page
MainPages == 2    \* Spec: pages the API serves for one endpoint
MainRecs == 1     \* Spec: records on one full page
MaxRows == 2      \* SpecWatermark: rows of TICKETS
MaxTs == 2        \* SpecWatermark: distinct instants
MaxNameLen == 6   \* SpecRename: chunks in one column name
MaxUploads == 3   \* SpecUpload: calls of upload_df_to_blob

-----------------------------------------------------------------------------
(* Python text operations *)

\* s[i:i+len(p)] == p
OccursAt(s, p, i) == i >= 1 /\ i + Len(p) - 1 <= Len(s) /\ SubSeq(s, i, i + Len(p) - 1) = p

\* p in s
Contains(s, p) == \E i \in 1..Len(s) : OccursAt(s, p, i)

\* s.replace(old, new, 1): the first occurrence only
RECURSIVE ReplaceFirstOnly(_, _, _)
ReplaceFirstOnly(s, old, new) ==
  IF Len(s) < Len(old) THEN s
  ELSE IF OccursAt(s, old, 1) THEN new \o SubSeq(s, Len(old) + 1, Len(s))
  ELSE <<Head(s)>> \o ReplaceFirstOnly(Tail(s), old, new)

\* s.replace(old, new): every non-overlapping occurrence, scanning left to right
RECURSIVE Replace(_, _, _)
Replace(s, old, new) ==
  IF Len(s) < Len(old) THEN s
  ELSE IF OccursAt(s, old, 1)
       THEN new \o Replace(SubSeq(s, Len(old) + 1, Len(s)), old, new)
       ELSE <<Head(s)>> \o Replace(Tail(s), old, new)

\* str.upper on one chunk
UpperChunk(c) ==
  CASE c = "id" -> "ID"
    [] c = "subject" -> "SUBJECT"
    [] c = "custom_" -> "CUSTOM_"
    [] c = "fields" -> "FIELDS"
    [] c = "cf_x" -> "CF_X"
    [] c = "label" -> "LABEL"
    [] c = "name" -> "NAME"
    [] OTHER -> c

\* s.upper()
Upper(s) == [i \in 1..Len(s) |-> UpperChunk(s[i])]

\* sep.join(parts)
RECURSIVE Join(_, _)
Join(parts, sep) ==
  IF Len(parts) = 0 THEN <<>>
  ELSE IF Len(parts) = 1 THEN parts[1]
  ELSE parts[1] \o sep \o Join(Tail(parts), sep)

\* index of the first c in s at or after position from, 0 if none
FirstIdx(s, c, from) ==
  IF \E i \in from..Len(s) : s[i] = c
  THEN CHOOSE i \in from..Len(s) : s[i] = c /\ \A j \in from..(i - 1) : s[j] # c
  ELSE 0

\* re.search('<(.*?)>', s): the leftmost "<" that some ">" follows, and the
\* shortest text up to a ">"
re_search(s) ==
  LET i == FirstIdx(s, "<", 1)
      j == IF i = 0 THEN 0 ELSE FirstIdx(s, ">", i + 1)
  IN  IF j = 0 THEN [matched |-> FALSE, group |-> <<>>]
      ELSE [matched |-> TRUE, group |-> SubSeq(s, i + 1, j - 1)]

-----------------------------------------------------------------------------
(* Module-level names and constants of main.py *)

\* names bound at module level by the import statements
ModuleNames == {"logging", "pd", "requests", "re", "Session", "BlobServiceClient",
                "BlobClient", "ContainerClient", "StringIO"}

domain == ""
api_creds_path == "C:\\Credentials\\FS_API_KEY.csv"
sf_creds_path == "C:\\Credentials\\SNOWPARK_DEV_LOADER_CREDS.CSV"

\* the literal of the watermark query
DefaultLiteral == <<"2001-04-16", "T", "00:00:00", "Z">>

CUSTOM_FIELDS == <<"CUSTOM_", "FIELDS", ".">>
SqlCompilationError == <<"SQL", " compilation", " error:">>

RecordPaths == {"tickets", "ticket_fields", "groups"}

\* the endpoint argument of the three calls in main
EndpointOf(rp, since) ==
  CASE rp = "tickets" -> <<"tickets?per_page=100", "&updated_since=">> \o since
    [] rp = "ticket_fields" -> <<"ticket_form_fields?per_page=100">>
    [] rp = "groups" -> <<"groups?per_page=100">>

\* url = f'https://{domain}.freshservice.com/api/v2/{endpoint}'
InitialUrl(endpoint) == <<"https://", domain, ".freshservice.com/api/v2/">> \o endpoint

BlobPathOf(rp) ==
  CASE rp = "groups" -> "API_FRESHSERVICE/AGENTGROUPS.csv"
    [] rp = "tickets" -> "API_FRESHSERVICE/TICKETS.csv"
    [] rp = "ticket_fields" -> "API_FRESHSERVICE/TICKET_FIELDS.csv"

BlobPaths == {BlobPathOf(rp) : rp \in RecordPaths}

-----------------------------------------------------------------------------
(* DataFrames: named columns and rows; a row is the record it was made from *)

\* pd.DataFrame()
EmptyFrame == [columns |-> <<>>, rows |-> <<>>]

RECURSIVE OrderedUnion(_, _)
OrderedUnion(acc, s) ==
  IF Len(s) = 0 THEN acc
  ELSE OrderedUnion(IF \E i \in 1..Len(acc) : acc[i] = Head(s) THEN acc
                    ELSE Append(acc, Head(s)), Tail(s))

\* the flattened column name of one key path: keys joined by "."
Flatten(path) == Join(path, <<".">>)

\* pd.json_normalize(body, record_path=rp): one row per record of body[rp], one
\* column per flattened key path
json_normalize(body) ==
  LET recs == body.records
      RECURSIVE Cols(_, _)
      Cols(acc, i) ==
        IF i > Len(recs) THEN acc
        ELSE Cols(OrderedUnion(acc, [j \in 1..Len(recs[i].paths) |->
                                        Flatten(recs[i].paths[j])]), i + 1)
  IN  [columns |-> Cols(<<>>, 1), rows |-> [i \in 1..Len(recs) |-> recs[i].src]]

\* the last frame alone
concat_last_only(frames) == IF Len(frames) = 0 THEN EmptyFrame ELSE frames[Len(frames)]

\* pd.concat(frames, ignore_index=True)
RECURSIVE concat(_)
concat(frames) ==
  IF Len(frames) = 0 THEN EmptyFrame
  ELSE LET rest == concat(Tail(frames))
       IN  [columns |-> OrderedUnion(Head(frames).columns, rest.columns),
            rows |-> Head(frames).rows \o rest.rows]

\* df.columns = df.columns.str.upper()
upper_columns(df) == [df EXCEPT !.columns = [i \in 1..Len(df.columns) |-> Upper(df.columns[i])]]

\* df.to_csv(buffer, index=False): a header line, then one line per row and no
\* index column
to_csv(df) == [exists |-> TRUE, header |-> df.columns, lines |-> df.rows]

NoBlob == [exists |-> FALSE, header |-> <<>>, lines |-> <<>>]

\* an upload that appends to an existing object
upload_blob_append(store, path, data) ==
  [store EXCEPT ![path] = IF store[path].exists
                          THEN [exists |-> TRUE, header |-> store[path].header,
                                lines |-> store[path].lines \o data.lines]
                          ELSE data]

\* blob_client.upload_blob(data, overwrite=True)
upload_blob(store, path, data) == [store EXCEPT ![path] = data]

-----------------------------------------------------------------------------
(* The Freshservice API, as the fetcher sees it *)

\* key paths of one record of each resource
Schema(rp) ==
  CASE rp = "tickets" -> << <<(<<"id">>)>>, <<(<<"subject">>)>>,
                            <<(<<"custom_", "fields">>), (<<"cf_x">>)>> >>
    [] rp = "ticket_fields" -> << <<(<<"id">>)>>, <<(<<"label">>)>> >>
    [] rp = "groups" -> << <<(<<"id">>)>>, <<(<<"name">>)>> >>

\* the page a URL asks for
PageOf(u, mp) ==
  IF Len(u) >= 2 /\ u[Len(u) - 1] = "&page="
  THEN CHOOSE p \in 2..(mp + 1) : ToString(p) = u[Len(u)]
  ELSE 1

\* the URL of the page after the one u asks for
NextUrl(u, mp) ==
  IF PageOf(u, mp) = 1 THEN u \o <<"&page=", ToString(2)>>
  ELSE SubSeq(u, 1, Len(u) - 1) \o <<ToString(PageOf(u, mp) + 1)>>

\* the JSON body of page p of resource rp holding k records
Body(rp, p, k) == [records |-> [i \in 1..k |-> [src |-> <<rp, p, i>>, paths |-> Schema(rp)]]]

NoBody == [records |-> <<>>]

\* what one GET of u can be answered with
ServerResponses(rp, u, mp, sizes) ==
  {[kind |-> "response", status_code |-> 200, body |-> Body(rp, PageOf(u, mp), k), link |-> l] :
      k \in sizes,
      l \in (IF PageOf(u, mp) < mp
             THEN {<<>>, <<"<">> \o NextUrl(u, mp) \o <<">", "; rel=\"next\"">>}
             ELSE {<<>>})}
  \cup {[kind |-> "response", status_code |-> c, body |-> NoBody, link |-> <<>>] : c \in {429, 500}}
  \cup {[kind |-> "no_response", status_code |-> 0, body |-> NoBody, link |-> <<>>]}

-----------------------------------------------------------------------------
(* Exceptions *)

NoExc == [type |-> "none", msg |-> <<>>, origin |-> "none"]

Exc(t, m, o) == [type |-> t, msg |-> m, origin |-> o]

\* what the outside world can raise in each statement of main
Raises(step) ==
  CASE step = "create_session" ->
         {Exc("FileNotFoundError", <<"[Errno 2] No such file or directory: ", sf_creds_path>>, step),
          Exc("DatabaseError", <<"250001 (08001): ", "Failed to connect to DB">>, step)}
    [] step = "get_api_key" ->
         {Exc("FileNotFoundError", <<"[Errno 2] No such file or directory: ", api_creds_path>>, step)}
    [] step = "get_updated_timestamp" ->
         {Exc("SnowparkSQLException",
              <<"(1304): ", "SQL", " compilation", " error:", " Object 'TICKETS' does not exist">>, step),
          Exc("SnowparkSQLException",
              <<"(1304): ", "SQL", " execution", " error:", " statement timed out">>, step)}
    [] step \in {"upload_groups", "upload_tickets", "upload_ticket_fields"} ->
         {Exc("ResourceNotFoundError", <<"The specified container does not exist.">>, step)}
    [] OTHER -> {}

\* isinstance(e, SnowparkSQLException)
SwallowedByType(e) == e.type = "SnowparkSQLException"

\* line 192: "SQL compilation error:" in str(e)
Swallowed(e) == Contains(e.msg, SqlCompilationError)

-----------------------------------------------------------------------------
(* get_updated_timestamp *)

Null == 0

\* str() of a warehouse timestamp: "YYYY-MM-DD HH:MM:SS"
TimestampText(ts) == <<"2023-08-2", ToString(ts), " ", "00:58:35">>

Coalesce(a, b) == IF a # Null THEN a ELSE b

\* MAX(COALESCE(UPDATED_AT, CREATED_AT)) over the rows; Null over no value
MaxCoalesce(rows) ==
  LET vals == {Coalesce(rows[i].UPDATED_AT, rows[i].CREATED_AT) : i \in 1..Len(rows)} \ {Null}
  IN  IF vals = {} THEN Null ELSE CHOOSE m \in vals : \A v \in vals : v <= m

\* str(df['X'][0]) of SELECT IFNULL(MAX(COALESCE(UPDATED_AT, CREATED_AT)),
\* '2001-04-16T00:00:00Z') AS X FROM TICKETS.  The aggregate is a timestamp and the
\* default a string literal: the warehouse either returns the literal as it is
\* written or casts it to the aggregate's type (asTimestamp).
QueryText(rows, asTimestamp) ==
  LET m == MaxCoalesce(rows)
  IN  IF m # Null THEN TimestampText(m)
      ELSE IF asTimestamp THEN <<"2001-04-16", " ", "00:00:00">>
      ELSE DefaultLiteral

\* timestamp_str.replace(" ", "T") + "Z"
IsoFormat(timestamp_str) == Replace(timestamp_str, <<" ">>, <<"T">>) \o <<"Z">>

get_updated_timestamp(rows, asTimestamp) == IsoFormat(QueryText(rows, asTimestamp))

-----------------------------------------------------------------------------
(* fetch_data_from_endpoint *)

Unbound == [bound |-> FALSE, status_code |-> 0]

WARN_RATE_LIMIT == "WARNING Rate limit reached. Waiting for 60 seconds before retrying..."
ERR_FETCH == "ERROR Error fetching data"
ERR_SNOWPARK == "ERROR Encountered a SnowparkSQLException"
ERR_OTHER == "ERROR Encountered an error"

\* lines 130-138: the value returned once the loop has ended
fetch_result(data) == upper_columns(IF Len(data) > 0 THEN concat(data) ELSE EmptyFrame)

\* lines 117-119: the URL of the next iteration, <<>> for None
next_url(u, link_header) ==
  LET match == IF Len(link_header) > 0 THEN re_search(link_header)
               ELSE [matched |-> FALSE, group |-> <<>>]
  IN  IF match.matched THEN match.group ELSE <<>>

\* a break that discards what was collected
on_error_drop(data) == <<>>

\* lines 126-128: all_data as the break leaves it
on_error(data) == data

\* One iteration of "while url" (lines 107-128) on the answer r to the GET of u:
\* what the iteration leaves in the locals and how it ends:
\*   "continue" (the loop goes on), "return" (the loop ended), "raise".
fetch_iteration(u, data, resp, r, lg, step) ==
  LET got == r.kind = "response"
      \* line 109: response is assigned only when requests.get returns
      resp1 == IF got THEN [bound |-> TRUE, status_code |-> r.status_code] ELSE resp
      \* lines 109-110: requests.get raises, or raise_for_status does
      failed == ~got \/ (r.status_code >= 400 /\ r.status_code < 600)
      base == [kind |-> "continue", url |-> u, all_data |-> data, response |-> resp1,
               log |-> lg, slept |-> 0, exc |-> NoExc, end |-> "no", body |-> <<>>]
  IN  IF ~failed
      THEN LET data1 == Append(data, json_normalize(r.body))
               u1 == next_url(u, r.link)
           IN  [base EXCEPT !.kind = IF Len(u1) > 0 THEN "continue" ELSE "return",
                            !.url = u1, !.all_data = data1,
                            !.end = IF Len(u1) > 0 THEN "no" ELSE "natural",
                            !.body = <<r.body>>]
      ELSE IF ~resp1.bound
      THEN \* line 122 reads a local that was never assigned
           [base EXCEPT !.kind = "raise", !.end = "raised",
                        !.exc = Exc("UnboundLocalError",
                                    <<"local variable 'response' referenced before assignment">>,
                                    step)]
      ELSE IF resp1.status_code = 429
      THEN IF "time" \in ModuleNames
           THEN [base EXCEPT !.log = Append(lg, WARN_RATE_LIMIT), !.slept = 1]
           ELSE \* line 124 reads a name the module never binds
                [base EXCEPT !.kind = "raise", !.end = "raised",
                             !.log = Append(lg, WARN_RATE_LIMIT),
                             !.exc = Exc("NameError", <<"name 'time' is not defined">>, step)]
      ELSE [base EXCEPT !.kind = "return", !.log = Append(lg, ERR_FETCH),
                        !.all_data = on_error(data),
                        !.end = IF got THEN "http_error" ELSE "network_error"]

-----------------------------------------------------------------------------
(* main *)

FetchPcs == {"fetch_tickets", "fetch_ticket_fields", "fetch_groups"}
UploadPcs == {"upload_groups", "upload_tickets", "upload_ticket_fields"}

\* the record_path argument of the call at each statement
RecordPathAt(step) ==
  CASE step \in {"fetch_tickets", "upload_tickets"} -> "tickets"
    [] step \in {"fetch_ticket_fields", "upload_ticket_fields"} -> "ticket_fields"
    [] step \in {"fetch_groups", "upload_groups"} -> "groups"

\* an order in which the uploads start before the last two fetches
AfterUploadsFirst(step) ==
  CASE step = "create_session" -> "get_api_key"
    [] step = "get_api_key" -> "get_updated_timestamp"
    [] step = "get_updated_timestamp" -> "session_close"
    [] step = "session_close" -> "fetch_tickets"
    [] step = "fetch_tickets" -> "rename"
    [] step = "rename" -> "upload_groups"
    [] step = "upload_groups" -> "upload_tickets"
    [] step = "upload_tickets" -> "upload_ticket_fields"
    [] step = "upload_ticket_fields" -> "fetch_ticket_fields"
    [] step = "fetch_ticket_fields" -> "fetch_groups"
    [] step = "fetch_groups" -> "done"

\* the statement that follows each statement of the try block (lines 161-189)
After(step) ==
  CASE step = "create_session" -> "get_api_key"
    [] step = "get_api_key" -> "get_updated_timestamp"
    [] step = "get_updated_timestamp" -> "session_close"
    [] step = "session_close" -> "fetch_tickets"
    [] step = "fetch_tickets" -> "rename"
    [] step = "rename" -> "fetch_ticket_fields"
    [] step = "fetch_ticket_fields" -> "fetch_groups"
    [] step = "fetch_groups" -> "upload_groups"
    [] step = "upload_groups" -> "upload_tickets"
    [] step = "upload_tickets" -> "upload_ticket_fields"
    [] step = "upload_ticket_fields" -> "done"

\* lines 170-171: the new name of every column
rename_columns(columns) ==
  [i \in 1..Len(columns) |->
     IF Contains(columns[i], CUSTOM_FIELDS) THEN Replace(columns[i], CUSTOM_FIELDS, <<>>)
     ELSE columns[i]]

Ev(op, arg) == [op |-> op, arg |-> arg]

\* lines 191-196: the except clause
Handle(e, lg) ==
  /\ exc' = e
  /\ IF Swallowed(e)
     THEN log' = Append(lg, ERR_SNOWPARK) /\ pc' = "done"
     ELSE log' = Append(lg, ERR_OTHER) /\ pc' = "raised"

\* upload_df_to_blob (lines 140-156): the container after the call
upload_df_to_blob(store, df, blob_path) == upload_blob(store, blob_path, to_csv(df))

\* the local of main that holds the table of a record path
FrameOf(rp) ==
  CASE rp = "tickets" -> ticket_df
    [] rp = "ticket_fields" -> ticket_fields_df
    [] rp = "groups" -> agent_groups_df

fetchLocals == <<fpc, url, all_data, response>>
frames == <<ticket_df, ticket_fields_df, agent_groups_df>>
warehouse == <<TICKETS, coerced>>
fetchHistory == <<served, ended, answers, sleeps>>

\* line 161: session = create_session(sf_creds_path)
CreateSession ==
  /\ pc = "create_session"
  /\ \E o \in {NoExc} \cup Raises(pc) :
       IF o = NoExc
       THEN /\ session' = "open"
            /\ trace' = Append(trace, Ev("create_session", <<>>))
            /\ pc' = After(pc)
            /\ UNCHANGED <<exc, log>>
       ELSE /\ Handle(o, log)
            /\ UNCHANGED <<session, trace>>
  /\ UNCHANGED <<warehouse, api_key, updated_since, fetchLocals, frames, blobs,
                 fetchHistory, uploads, renamed_from>>

\* line 162: api_key = get_api_key(api_creds_path)
GetApiKey ==
  /\ pc = "get_api_key"
  /\ \E o \in {NoExc} \cup Raises(pc) :
       IF o = NoExc
       THEN /\ api_key' = "key"
            /\ trace' = Append(trace, Ev("get_api_key", <<>>))
            /\ pc' = After(pc)
            /\ UNCHANGED <<exc, log>>
       ELSE /\ Handle(o, log)
            /\ UNCHANGED <<api_key, trace>>
  /\ UNCHANGED <<session, warehouse, updated_since, fetchLocals, frames, blobs,
                 fetchHistory, uploads, renamed_from>>

\* line 165: updated_since = get_updated_timestamp(session)
GetUpdatedTimestamp ==
  /\ pc = "get_updated_timestamp"
  /\ trace' = Append(trace, Ev("session.sql", <<session>>))
  /\ \E o \in {NoExc} \cup Raises(pc) :
       IF o = NoExc
       THEN /\ updated_since' = get_updated_timestamp(TICKETS, coerced)
            /\ pc' = After(pc)
            /\ UNCHANGED <<exc, log>>
       ELSE /\ Handle(o, log)
            /\ UNCHANGED updated_since
  /\ UNCHANGED <<session, warehouse, api_key, fetchLocals, frames, blobs,
                 fetchHistory, uploads, renamed_from>>

\* line 166: session.close()
SessionClose ==
  /\ pc = "session_close"
  /\ session' = "closed"
  /\ trace' = Append(trace, Ev("session.close", <<>>))
  /\ pc' = After(pc)
  /\ UNCHANGED <<warehouse, api_key, updated_since, fetchLocals, frames, blobs, exc, log,
                 fetchHistory, uploads, renamed_from>>

\* lines 168, 174, 177 entering lines 100-105 of fetch_data_from_endpoint
FetchCall ==
  /\ pc \in FetchPcs
  /\ fpc = "idle"
  /\ fpc' = "loop"
  /\ url' = InitialUrl(EndpointOf(RecordPathAt(pc), updated_since))
  /\ all_data' = <<>>
  /\ response' = Unbound
  /\ trace' = Append(trace, Ev("fetch", <<RecordPathAt(pc)>>))
  /\ UNCHANGED <<pc, session, warehouse, api_key, updated_since, frames, blobs, exc, log,
                 fetchHistory, uploads, renamed_from>>

\* one iteration of the loop of fetch_data_from_endpoint (lines 107-128) and, when
\* the loop ends, lines 130-138 and the assignment in main; an exception goes to
\* the except clause of main
FetchLoop(mp, sizes) ==
  /\ pc \in FetchPcs
  /\ fpc = "loop"
  /\ Len(url) > 0
  /\ \E r \in ServerResponses(RecordPathAt(pc), url, mp, sizes) :
       LET rp == RecordPathAt(pc)
           o == fetch_iteration(url, all_data, response, r, log, pc)
           df == fetch_result(o.all_data)
       IN  /\ trace' = Append(trace, Ev("GET", url))
           /\ served' = [served EXCEPT ![rp] = @ \o o.body]
           /\ ended' = [ended EXCEPT ![rp] = o.end]
           /\ answers' = [answers EXCEPT ![rp] = Append(@, r.status_code)]
           /\ sleeps' = sleeps + o.slept
           /\ IF o.kind = "continue"
              THEN /\ url' = o.url
                   /\ all_data' = o.all_data
                   /\ response' = o.response
                   /\ log' = o.log
                   /\ UNCHANGED <<pc, fpc, frames, exc>>
              ELSE /\ fpc' = "idle"
                   /\ url' = <<>>
                   /\ all_data' = <<>>
                   /\ response' = Unbound
                   /\ IF o.kind = "return"
                      THEN /\ ticket_df' = IF rp = "tickets" THEN df ELSE ticket_df
                           /\ ticket_fields_df' = IF rp = "ticket_fields" THEN df
                                                  ELSE ticket_fields_df
                           /\ agent_groups_df' = IF rp = "groups" THEN df ELSE agent_groups_df
                           /\ pc' = After(pc)
                           /\ log' = o.log
                           /\ UNCHANGED exc
                      ELSE /\ Handle(o.exc, o.log)
                           /\ UNCHANGED frames
  /\ UNCHANGED <<session, warehouse, api_key, updated_since, blobs, uploads, renamed_from>>

\* lines 170-171: rename_cols and ticket_df.rename(columns=rename_cols, inplace=True)
RenameColumns ==
  /\ pc = "rename"
  /\ renamed_from' = ticket_df.columns
  /\ ticket_df' = [ticket_df EXCEPT !.columns = rename_columns(ticket_df.columns)]
  /\ trace' = Append(trace, Ev("rename", <<>>))
  /\ pc' = After(pc)
  /\ UNCHANGED <<session, warehouse, api_key, updated_since, fetchLocals, ticket_fields_df,
                 agent_groups_df, blobs, exc, log, fetchHistory, uploads>>

\* lines 180-181, 184-185, 188-189: one upload_df_to_blob call of main
Upload ==
  /\ pc \in UploadPcs
  /\ \E o \in {NoExc} \cup Raises(pc) :
       LET blob_path == BlobPathOf(RecordPathAt(pc))
           df == FrameOf(RecordPathAt(pc))
       IN  IF o = NoExc
           THEN /\ blobs' = upload_df_to_blob(blobs, df, blob_path)
                /\ uploads' = Append(uploads, [path |-> blob_path, data |-> to_csv(df)])
                /\ trace' = Append(trace, Ev("upload_blob", <<blob_path>>))
                /\ pc' = After(pc)
                /\ UNCHANGED <<exc, log>>
           ELSE /\ Handle(o, log)
                /\ UNCHANGED <<blobs, uploads, trace>>
  /\ UNCHANGED <<session, warehouse, api_key, updated_since, fetchLocals, frames,
                 fetchHistory, renamed_from>>

-----------------------------------------------------------------------------
(* The run of main *)

\* an object a previous run left in the container
OldBlob == to_csv([columns |-> << <<"ID">> >>, rows |-> << <<"previous run", 1, 1>> >>])

InitLocals ==
  /\ api_key = ""
  /\ updated_since = <<>>
  /\ fpc = "idle"
  /\ url = <<>>
  /\ all_data = <<>>
  /\ response = Unbound
  /\ ticket_fields_df = EmptyFrame
  /\ agent_groups_df = EmptyFrame
  /\ exc = NoExc
  /\ log = <<>>
  /\ trace = <<>>
  /\ served = [rp \in RecordPaths |-> <<>>]
  /\ ended = [rp \in RecordPaths |-> "no"]
  /\ answers = [rp \in RecordPaths |-> <<>>]
  /\ sleeps = 0
  /\ uploads = <<>>
  /\ renamed_from = <<>>

Init ==
  /\ pc = "create_session"
  /\ session = "none"
  /\ TICKETS \in {<<>>, <<[UPDATED_AT |-> 1, CREATED_AT |-> 1]>>}
  /\ coerced \in BOOLEAN
  /\ blobs \in {[p \in BlobPaths |-> NoBlob], [p \in BlobPaths |-> OldBlob]}
  /\ ticket_df = EmptyFrame
  /\ InitLocals

\* in a run of main a page is empty or holds MainRecs records
FetchMain == FetchLoop(MainPages, {0, MainRecs})

Next ==
  \/ CreateSession
  \/ GetApiKey
  \/ GetUpdatedTimestamp
  \/ SessionClose
  \/ FetchCall
  \/ FetchMain
  \/ RenameColumns
  \/ Upload

Spec == Init /\ [][Next]_vars

-----------------------------------------------------------------------------
(* fetch_data_from_endpoint alone: one call, from the state main makes it in *)

InitFetch ==
  /\ pc \in {"fetch_tickets", "fetch_groups"}
  /\ session = "closed"
  /\ TICKETS = <<>>
  /\ coerced \in BOOLEAN
  /\ blobs = [p \in BlobPaths |-> NoBlob]
  /\ ticket_df = EmptyFrame
  /\ InitLocals

FetchWide == FetchLoop(MaxPages, 0..MaxRecs)

NextFetch ==
  \/ FetchCall
  \/ FetchWide

SpecFetch == InitFetch /\ [][NextFetch]_vars

-----------------------------------------------------------------------------
(* get_updated_timestamp alone, over the contents of TICKETS *)

TicketRows == [UPDATED_AT : 0..MaxTs, CREATED_AT : 0..MaxTs]

TablesUpTo(n) == UNION {[1..k -> TicketRows] : k \in 0..n}

InitWatermark ==
  /\ pc = "get_updated_timestamp"
  /\ session = "open"
  /\ TICKETS \in TablesUpTo(MaxRows)
  /\ coerced \in BOOLEAN
  /\ blobs = [p \in BlobPaths |-> NoBlob]
  /\ ticket_df = EmptyFrame
  /\ InitLocals

NextWatermark == GetUpdatedTimestamp

SpecWatermark == InitWatermark /\ [][NextWatermark]_vars

-----------------------------------------------------------------------------
(* The rename of main alone, over column names *)

NameChunks == {"CUSTOM_", "FIELDS", ".", "CF_X"}

NamesUpTo(n) == UNION {[1..k -> NameChunks] : k \in 1..n}

InitRename ==
  /\ pc = "rename"
  /\ session = "closed"
  /\ TICKETS = <<>>
  /\ coerced = FALSE
  /\ blobs = [p \in BlobPaths |-> NoBlob]
  /\ InitLocals
  /\ \E n \in NamesUpTo(MaxNameLen) :
       ticket_df = [columns |-> << <<"ID">>, n >>, rows |-> << <<"tickets", 1, 1>> >>]

NextRename == RenameColumns

SpecRename == InitRename /\ [][NextRename]_vars

-----------------------------------------------------------------------------
(* upload_df_to_blob alone: any tables to any paths, one call after another *)

UploadFrames ==
  {EmptyFrame,
   [columns |-> << <<"ID">> >>, rows |-> << <<"groups", 1, 1>> >>],
   [columns |-> << <<"ID">> >>, rows |-> << <<"groups", 1, 1>>, <<"groups", 1, 2>> >>],
   [columns |-> << <<"ID">>, <<"NAME">> >>, rows |-> << <<"groups", 2, 1>> >>]}

InitUpload ==
  /\ pc = "upload_call"
  /\ session = "closed"
  /\ TICKETS = <<>>
  /\ coerced = FALSE
  /\ blobs \in {[p \in BlobPaths |-> NoBlob], [p \in BlobPaths |-> OldBlob]}
  /\ ticket_df = EmptyFrame
  /\ InitLocals

UploadCall ==
  /\ pc = "upload_call"
  /\ Len(uploads) < MaxUploads
  /\ \E df \in UploadFrames, blob_path \in BlobPaths :
       /\ blobs' = upload_df_to_blob(blobs, df, blob_path)
       /\ uploads' = Append(uploads, [path |-> blob_path, data |-> to_csv(df)])
  /\ UNCHANGED <<pc, session, warehouse, api_key, updated_since, fetchLocals, frames, exc,
                 log, trace, fetchHistory, renamed_from>>

NextUpload == UploadCall

SpecUpload == InitUpload /\ [][NextUpload]_vars

-----------------------------------------------------------------------------
(* What the claims speak of *)

\* the records of a sequence of bodies, page after page
RECURSIVE RowsOf(_)
RowsOf(bodies) ==
  IF Len(bodies) = 0 THEN <<>>
  ELSE [i \in 1..Len(Head(bodies).records) |-> Head(bodies).records[i].src]
       \o RowsOf(Tail(bodies))

Last(s) == s[Len(s)]

Gets(tr) == SelectSeq(tr, LAMBDA e : e.op = "GET")
Steps(tr) == SelectSeq(tr, LAMBDA e : e.op # "GET")

IsPrefix(s, t) == Len(s) <= Len(t) /\ SubSeq(t, 1, Len(s)) = s

FetchPcOf(rp) == CHOOSE step \in FetchPcs : RecordPathAt(step) = rp

\* C1: a request answered with 429 is followed by one 60-second wait and a retry,
\* and no exception escapes the fetcher: every rate-limit warning in the log has
\* its completed wait, and no exception has reached main.
C1_RateLimitIsRetried ==
  \A i \in 1..Len(log) :
    log[i] = WARN_RATE_LIMIT =>
      /\ sleeps = Cardinality({j \in 1..Len(log) : log[j] = WARN_RATE_LIMIT})
      /\ exc = NoExc
      /\ pc # "raised"

C3_EmptyTableDefault ==
  (pc = "session_close" /\ TICKETS = <<>>) => updated_since = DefaultLiteral

\* C4: every request failure that is not a rate limit (an HTTP error status other
\* than 429, or no response at all, on the first page or a later one) is logged,
\* ends the loop, and the fetcher returns normally with exactly the rows of the
\* pages collected before it; no exception escapes.
C4_FailureKeepsCollected ==
  \A rp \in RecordPaths :
    (Len(answers[rp]) > 0 /\ Last(answers[rp]) \in {0, 500}) =>
      /\ exc = NoExc
      /\ ended[rp] \in {"http_error", "network_error"}
      /\ Len(log) > 0 /\ Last(log) = ERR_FETCH
      /\ fpc = "idle" /\ pc = After(FetchPcOf(rp))
      /\ FrameOf(rp).rows = RowsOf(served[rp])

\* a warehouse-specific error raised by the warehouse session
IsWarehouseError(e) ==
  /\ e.type \in {"SnowparkSQLException", "DatabaseError"}
  /\ e.origin \in {"create_session", "get_updated_timestamp"}

\* C5 as stated: main swallows an error exactly when it is a warehouse-specific
\* error raised by the warehouse session; every other exception is re-raised.
C5_SwallowsWarehouseErrors ==
  exc # NoExc =>
    /\ pc \in {"done", "raised"}
    /\ pc = "done" <=> IsWarehouseError(exc)

\* C5 as amended: an exception that reaches main's handler is logged; main swallows
\* it (returns normally) exactly when its message contains "SQL compilation
\* error:", and re-raises it otherwise, whichever statement raised it; in both
\* cases the run is over, so nothing is uploaded after the error.
C5_SwallowsBySubstring ==
  exc # NoExc =>
    /\ pc \in {"done", "raised"}
    /\ pc = "done" <=> Contains(exc.msg, SqlCompilationError)
    /\ Len(log) > 0
    /\ Last(log) = IF Contains(exc.msg, SqlCompilationError) THEN ERR_SNOWPARK ELSE ERR_OTHER
    /\ fpc = "idle"
    /\ exc.origin \in UploadPcs =>
         \A i \in 1..Len(uploads) : uploads[i].path # BlobPathOf(RecordPathAt(exc.origin))

C5_Witness ==
  /\ pc = "done"
  /\ exc.type = "SnowparkSQLException"
  /\ Contains(exc.msg, SqlCompilationError)
  /\ uploads = <<>>

\* the steps of an error-free run, in order
ExpectedSteps ==
  <<Ev("create_session", <<>>), Ev("get_api_key", <<>>), Ev("session.sql", <<"open">>),
    Ev("session.close", <<>>), Ev("fetch", <<"tickets">>), Ev("rename", <<>>),
    Ev("fetch", <<"ticket_fields">>), Ev("fetch", <<"groups">>),
    Ev("upload_blob", <<"API_FRESHSERVICE/AGENTGROUPS.csv">>),
    Ev("upload_blob", <<"API_FRESHSERVICE/TICKETS.csv">>),
    Ev("upload_blob", <<"API_FRESHSERVICE/TICKET_FIELDS.csv">>)>>

\* C6: an error-free run performs its steps in exactly the order open session, read
\* watermark (once), close session, fetch tickets filtered by that watermark,
\* rename, fetch ticket form fields, fetch agent groups, upload AGENTGROUPS.csv,
\* TICKETS.csv, TICKET_FIELDS.csv, none repeated or skipped; every HTTP request
\* comes after the close and before the first upload.
C6_StepOrder ==
  exc = NoExc =>
    /\ IsPrefix(Steps(trace), ExpectedSteps)
    /\ pc = "done" => Steps(trace) = ExpectedSteps
    /\ \A i \in 1..Len(trace) :
         trace[i].op = "GET" =>
           /\ \E j \in 1..(i - 1) : trace[j].op = "session.close"
           /\ \A j \in 1..(i - 1) : trace[j].op # "upload_blob"
           /\ \E j \in 1..(i - 1) : trace[j].op = "fetch"
    /\ \A i \in 1..Len(trace) :
         (trace[i].op = "GET" /\ trace[i - 1] = Ev("fetch", <<"tickets">>)) =>
            /\ updated_since = get_updated_timestamp(TICKETS, coerced)
            /\ trace[i].arg = <<"https://", "", ".freshservice.com/api/v2/",
                                "tickets?per_page=100", "&updated_since=">> \o updated_since

C6_Witness == pc = "done" /\ exc = NoExc /\ Len(uploads) = 3 /\ Len(Gets(trace)) > 3

\* s without the chunks that lie inside an occurrence of p
RECURSIVE KeepOutside(_, _, _)
KeepOutside(s, p, j) ==
  IF j > Len(s) THEN <<>>
  ELSE (IF \E i \in 1..Len(s) : OccursAt(s, p, i) /\ i <= j /\ j < i + Len(p)
        THEN <<>> ELSE <<s[j]>>) \o KeepOutside(s, p, j + 1)

\* C7 as stated: the rename strips CUSTOM_FIELDS. from every column name that
\* contains it, leaves the others unchanged, and is idempotent: renaming its own
\* output changes nothing.
C7_RenameIdempotent ==
  pc = After("rename") =>
    /\ \A i \in 1..Len(renamed_from) :
         ticket_df.columns[i] =
           IF Contains(renamed_from[i], CUSTOM_FIELDS)
           THEN KeepOutside(renamed_from[i], CUSTOM_FIELDS, 1) ELSE renamed_from[i]
    /\ rename_columns(ticket_df.columns) = ticket_df.columns

\* C7 as amended: the rename maps every column name containing CUSTOM_FIELDS. to
\* that name with every occurrence removed and leaves the others unchanged;
\* renaming its own output changes nothing exactly when no output name contains
\* CUSTOM_FIELDS. any more.
C7_RenameStripsOccurrences ==
  pc = After("rename") =>
    /\ Len(ticket_df.columns) = Len(renamed_from)
    /\ \A i \in 1..Len(renamed_from) :
         ticket_df.columns[i] =
           IF Contains(renamed_from[i], CUSTOM_FIELDS)
           THEN KeepOutside(renamed_from[i], CUSTOM_FIELDS, 1) ELSE renamed_from[i]
    /\ rename_columns(ticket_df.columns) = ticket_df.columns
         <=> \A i \in 1..Len(ticket_df.columns) : ~Contains(ticket_df.columns[i], CUSTOM_FIELDS)

C7_Witness ==
  /\ pc = After("rename")
  /\ renamed_from = << <<"ID">>, <<"CUSTOM_", "FIELDS", ".", "CF_X">> >>
  /\ ticket_df.columns = << <<"ID">>, <<"CF_X">> >>

\* C8: after upload_df_to_blob is called with A and then with B on one path, the
\* blob holds the CSV of B alone, and the blobs at other paths are as they were:
\* every blob is the CSV of the last table uploaded to its own path, or what the
\* container held before if none was.
C8_UploadOverwrites ==
  \A p \in BlobPaths :
    LET mine == {i \in 1..Len(uploads) : uploads[i].path = p}
    IN  IF mine = {} THEN blobs[p] \in {NoBlob, OldBlob}
        ELSE blobs[p] = uploads[CHOOSE i \in mine : \A j \in mine : j <= i].data

C8_Witness ==
  \E i, j \in 1..Len(uploads) :
    /\ i < j /\ j = Len(uploads)
    /\ uploads[i].path = uploads[j].path
    /\ Len(uploads[i].data.lines) > 0
    /\ uploads[i].data.lines # uploads[j].data.lines
    /\ blobs[uploads[j].path] = uploads[j].data

\* the header of the CSV of each resource
ExpectedHeader(rp) ==
  CASE rp = "tickets" -> << <<"ID">>, <<"SUBJECT">>, <<"CF_X">> >>
    [] rp = "ticket_fields" -> << <<"ID">>, <<"LABEL">> >>
    [] rp = "groups" -> << <<"ID">>, <<"NAME">> >>

C10_SessionAlwaysClosed ==
  /\ (pc \in {"done", "raised"} /\ session # "none") => session = "closed"
  /\ \A i \in 1..Len(trace) : trace[i].op = "session.sql" => trace[i].arg = <<"open">>

====
